---- MODULE Spec2Model ----
(***************************************************************************)
(* Model of the context library (Background, WithValue, WithCancel,        *)
(* WithTimeout, CancelSignal, ContextPromise).  Every action is one        *)
(* synchronous turn of the event loop: a constructor call, a cancel()      *)
(* call, a timer callback, or a settlement of a promise.                   *)
(***************************************************************************)
EXTENDS Integers, Sequences, FiniteSets, TLC

\* ---- bounds of the model ----
MaxNodes == 3
MaxPromiseNodes == 1
MaxLiveNodes == 2
MaxPromises == 2
MaxTime == 1
MaxMs == 1
MaxObserverNodes == 2
MaxObservers == 2
MaxDeadlineNodes == 2
MaxDeadline == 2
MaxValueNodes == 3
MaxKeyNodes == 2

Node == 1..MaxNodes
PromiseId == 1..MaxPromises
Durations == 1..MaxMs
ObserverId == 1..MaxObservers

\* keys offered to the WithValue constructor, by the JavaScript type of the key
Key(t, r) == [type |-> t, repr |-> r]
NoKey == Key("none", "")
NaN == Key("number", "NaN")

\* a === b on keys: equal type and equal value, NaN being equal to nothing
StrictEquals(a, b) == a = b /\ a # NaN

Canceled == "Canceled"
DeadlineExceeded == "DeadlineExceeded"
null == "null"

VARIABLES ctxs, sigError, aborted, listeners, timers, promises, now, firedBy, log,
          hist

vars == <<ctxs, sigError, aborted, listeners, timers, promises, now, firedBy, log,
          hist>>

\* ---- the context tree ----
Background == 0

Created == 1..Len(ctxs)

IsCancelable(n) == n \in Created /\ ctxs[n].kind \in {"WithCancel", "WithTimeout"}

parentOf(n) == ctxs[n].parent

RECURSIVE done(_)

\* done() of a WithValue node that answers null instead of asking the parent
done_ValueHidesSignal(n) ==
  IF n = Background THEN Background
  ELSE IF ctxs[n].kind = "WithValue" THEN Background
  ELSE n

\* Context.done(): the node that owns the signal this context exposes,
\* Background (0) standing for "no signal".
done(n) ==
  IF n = Background THEN Background
  ELSE IF ctxs[n].kind = "WithValue" THEN done(parentOf(n))
  ELSE n

RECURSIVE value(_, _)

\* value() of a cancelable node that answers null once the node has fired
value_NullOnceFired(n, key) ==
  IF n = Background THEN null
  ELSE IF ctxs[n].kind # "WithValue" /\ aborted[n] THEN null
  ELSE IF ctxs[n].kind = "WithValue" /\ StrictEquals(ctxs[n].key, key)
       THEN ctxs[n].val
  ELSE value(parentOf(n), key)

\* value() that prefers the binding nearest to the root
value_OutermostWins(n, key) ==
  IF n = Background THEN null
  ELSE IF value(parentOf(n), key) # null THEN value(parentOf(n), key)
  ELSE IF ctxs[n].kind = "WithValue" /\ StrictEquals(ctxs[n].key, key)
       THEN ctxs[n].val
  ELSE null

\* Context.value(key)
value(n, key) ==
  IF n = Background THEN null
  ELSE IF ctxs[n].kind = "WithValue" /\ StrictEquals(ctxs[n].key, key)
       THEN ctxs[n].val
  ELSE value(parentOf(n), key)

RECURSIVE IsAncestor(_, _)
IsAncestor(a, n) ==
  IF n = Background THEN FALSE
  ELSE parentOf(n) = a \/ IsAncestor(a, parentOf(n))

InSubtree(a, n) == n = a \/ IsAncestor(a, n)

\* ---- the mutable part of the program, as one record ----
Heap == [err |-> sigError, ab |-> aborted, ls |-> listeners,
         tm |-> timers, pr |-> promises, log |-> log]

RECURSIVE errorIn(_, _)

\* a root that reports Canceled once any node below it has fired
errorIn_RootRemembers(H, n) ==
  IF n = Background THEN (IF \E m \in Node : H.ab[m] THEN Canceled ELSE null)
  ELSE IF ctxs[n].kind = "WithValue" THEN errorIn(H, parentOf(n))
  ELSE H.err[n]

\* Context.error()
errorIn(H, n) ==
  IF n = Background THEN null
  ELSE IF ctxs[n].kind = "WithValue" THEN errorIn(H, parentOf(n))
  ELSE H.err[n]

error(n) == errorIn(Heap, n)

\* ---- functions the code registers as callbacks ----
\* handler: () => this._signal.cancel(parentSignal.error()!)
handler(child, ps) == [type |-> "handler", node |-> child, ps |-> ps]
\* () => parentSignal.removeEventListener("abort", handler)
removeHandler(child, ps) == [type |-> "removeHandler", node |-> child, ps |-> ps]
\* () => clearTimeout(id)
clearTimer(n) == [type |-> "clearTimeout", node |-> n, ps |-> 0]
\* (reason) => this.reject(reason)
rejector(p) == [type |-> "reject", node |-> p, ps |-> 0]
\* a callback of the caller, (reason) => ..., handed to onCanceled of signal s; late
\* tells whether the signal had fired when the callback was handed over
observer(id, s, late) == [type |-> "observer", node |-> id, ps |-> s, late |-> late]

\* a callback of the caller that calls cancel() on the node target:
\* (reason) => { ...; target.cancel() }
canceller(id, s, late, target) ==
  [type |-> "canceller", node |-> id, ps |-> s, late |-> late, target |-> target]

\* the arrow function onCanceled hands to addEventListener: () => fn(this._error)
Wrapper(fn) == [wrapped |-> TRUE, fn |-> fn]
\* a function handed to add/removeEventListener as it is
Direct(fn) == [wrapped |-> FALSE, fn |-> fn]

\* addEventListener that puts the new listener at the head of the list
addEventListener_AtHead(H, s, listener) ==
  IF \E i \in 1..Len(H.ls[s]) : H.ls[s][i] = listener THEN H
  ELSE [H EXCEPT !.ls[s] = <<listener>> \o @]

\* EventTarget.addEventListener(type, listener, {once: true})
addEventListener(H, s, listener) ==
  IF \E i \in 1..Len(H.ls[s]) : H.ls[s][i] = listener THEN H
  ELSE [H EXCEPT !.ls[s] = Append(@, listener)]

\* EventTarget.removeEventListener(type, listener)
removeEventListener(H, s, listener) ==
  [H EXCEPT !.ls[s] = SelectSeq(@, LAMBDA l : l # listener)]

\* clearTimeout(id)
clearTimeout(H, n) ==
  IF H.tm[n].state = "armed" THEN [H EXCEPT !.tm[n].state = "cleared"] ELSE H

\* the native resolve function of a Promise
nativeResolve(H, p, v) ==
  IF H.pr[p].state = "pending"
  THEN [H EXCEPT !.pr[p].state = "resolved", !.pr[p].value = v,
                 !.pr[p].settles = @ + 1]
  ELSE H

\* the native reject function of a Promise
nativeReject(H, p, reason, by) ==
  IF H.pr[p].state = "pending"
  THEN [H EXCEPT !.pr[p].state = "rejected", !.pr[p].value = reason,
                 !.pr[p].settles = @ + 1, !.pr[p].by = by]
  ELSE H

\* resolve() that also takes the observer of the promise off its context's signal
PromiseResolve_Unregisters(H, p, v) ==
  LET s == done(H.pr[p].ctx)
      H1 == nativeResolve(H, p, v)
  IN IF s = Background THEN H1
     ELSE removeEventListener(H1, s, Wrapper(rejector(p)))

\* ContextPromise.resolve(value)
PromiseResolve(H, p, v) == nativeResolve(H, p, v)

\* reject() that settles again a promise that has settled
PromiseReject_Overwrites(H, p, reason, by) ==
  [H EXCEPT !.pr[p].state = "rejected", !.pr[p].value = reason,
            !.pr[p].settles = @ + 1, !.pr[p].by = by]

\* ContextPromise.reject(reason)
PromiseReject(H, p, reason, by) == nativeReject(H, p, reason, by)

\* what a callback finds when it asks every signal for error() and aborted: TRUE
\* when each signal has an error exactly if it has fired
Seen(H) == \A m \in Node : (H.err[m] # null) <=> H.ab[m]

RECURSIVE SignalCancel(_, _, _)
RECURSIVE abort(_, _)
RECURSIVE dispatch(_, _, _, _)
RECURSIVE call(_, _, _)

\* cancel(error) that aborts first and records the error afterwards
SignalCancel_AbortFirst(H, s, e) == [abort(H, s) EXCEPT !.err[s] = e]

\* CancelSignal.cancel(error)
SignalCancel(H, s, e) == abort([H EXCEPT !.err[s] = e], s)

\* abort() that runs the listeners from the last one to the first
abort_LastFirst(H, s) ==
  IF H.ab[s] THEN H
  ELSE dispatch([H EXCEPT !.ab[s] = TRUE], s,
                [i \in 1..Len(H.ls[s]) |-> H.ls[s][Len(H.ls[s]) + 1 - i]], 1)

\* AbortController.abort(): sets the flag and dispatches "abort" once
abort(H, s) ==
  IF H.ab[s] THEN H
  ELSE dispatch([H EXCEPT !.ab[s] = TRUE], s, H.ls[s], 1)

\* dispatchEvent that leaves a once-listener on the list after running it
dispatch_KeepsListeners(H, s, snap, i) ==
  IF i > Len(snap) THEN H
  ELSE IF ~ \E j \in 1..Len(H.ls[s]) : H.ls[s][j] = snap[i]
       THEN dispatch(H, s, snap, i + 1)
       ELSE dispatch(call(H, snap[i].fn, H.err[s]), s, snap, i + 1)

\* EventTarget.dispatchEvent over the listeners present when the dispatch began;
\* a listener removed meanwhile is skipped, a once-listener is removed before it runs
dispatch(H, s, snap, i) ==
  IF i > Len(snap) THEN H
  ELSE IF ~ \E j \in 1..Len(H.ls[s]) : H.ls[s][j] = snap[i]
       THEN dispatch(H, s, snap, i + 1)
       ELSE LET H1 == removeEventListener(H, s, snap[i])
                H2 == call(H1, snap[i].fn, H1.err[s])
            IN dispatch(H2, s, snap, i + 1)

\* a handler that cancels the child with a new Canceled() instead of the parent's error
call_HandlerCancels(H, fn, arg) ==
  CASE fn.type = "handler" -> SignalCancel(H, fn.node, Canceled)
    [] fn.type = "removeHandler" ->
         removeEventListener(H, fn.ps, Direct(handler(fn.node, fn.ps)))
    [] fn.type = "clearTimeout" -> clearTimeout(H, fn.node)
    [] fn.type = "reject" ->
         PromiseReject([H EXCEPT !.pr[fn.node].ctxRejects = @ + 1],
                       fn.node, arg, "context")
    [] fn.type = "observer" ->
         [H EXCEPT !.log = Append(@, [obs |-> fn.node, sig |-> fn.ps,
                                      arg |-> arg, late |-> fn.late,
                                      seen |-> Seen(H)])]
    [] fn.type = "canceller" ->
         SignalCancel([H EXCEPT !.log = Append(@, [obs |-> fn.node, sig |-> fn.ps,
                                                   arg |-> arg, late |-> fn.late,
                                                   seen |-> Seen(H)])],
                      fn.target, Canceled)

\* running one of the registered functions with the argument it is given
call(H, fn, arg) ==
  CASE fn.type = "handler" -> SignalCancel(H, fn.node, H.err[fn.ps])
    [] fn.type = "removeHandler" ->
         removeEventListener(H, fn.ps, Direct(handler(fn.node, fn.ps)))
    [] fn.type = "clearTimeout" -> clearTimeout(H, fn.node)
    [] fn.type = "reject" ->
         PromiseReject([H EXCEPT !.pr[fn.node].ctxRejects = @ + 1],
                       fn.node, arg, "context")
    [] fn.type = "observer" ->
         [H EXCEPT !.log = Append(@, [obs |-> fn.node, sig |-> fn.ps,
                                      arg |-> arg, late |-> fn.late,
                                      seen |-> Seen(H)])]
    [] fn.type = "canceller" ->
         SignalCancel([H EXCEPT !.log = Append(@, [obs |-> fn.node, sig |-> fn.ps,
                                                   arg |-> arg, late |-> fn.late,
                                                   seen |-> Seen(H)])],
                      fn.target, Canceled)

\* onCanceled that runs the callback at once whatever the state of the signal
onCanceled_AlwaysCalls(H, s, fn) == call(H, fn, H.err[s])

\* onCanceled without the "already cancelled" branch
onCanceled_AlwaysQueues(H, s, fn) == addEventListener(H, s, Wrapper(fn))

\* CancelSignal.onCanceled(fn)
onCanceled(H, s, fn) ==
  IF H.ab[s] THEN call(H, fn, H.err[s])
  ELSE addEventListener(H, s, Wrapper(fn))

\* ---- initial state ----
NoTimer == [state |-> "none", deadline |-> 0]

Init ==
  /\ ctxs = <<>>
  /\ sigError = [n \in Node |-> null]
  /\ aborted = [n \in Node |-> FALSE]
  /\ listeners = [n \in Node |-> <<>>]
  /\ timers = [n \in Node |-> NoTimer]
  /\ promises = <<>>
  /\ now = 0
  /\ firedBy = [n \in Node |-> "none"]
  /\ log = <<>>
  /\ hist = [called |-> {}, late |-> {}]

\* history of the run: how each signal came to fire first ("cancel": its own
\* cancel(), "timer": its own timer, "parent": the handler on an ancestor's signal)
FiredBy(H, origin, how) ==
  [m \in Node |->
     IF H.ab[m] /\ ~aborted[m]
     THEN (IF m = origin THEN how ELSE "parent")
     ELSE firedBy[m]]

\* the heap an operation leaves behind becomes the next state
StoreHeap(H, origin, how) ==
  /\ sigError' = H.err
  /\ aborted' = H.ab
  /\ listeners' = H.ls
  /\ timers' = H.tm
  /\ promises' = H.pr
  /\ firedBy' = FiredBy(H, origin, how)
  /\ log' = H.log

\* the same, in a run that keeps no history of the calls made
Store(H, origin, how) == StoreHeap(H, origin, how) /\ hist' = hist

\* ---- constructors ----
\* a constructor whose first check is "if (!key)", which also refuses the keys
\* JavaScript takes for false
InvalidKey_Falsy(key) ==
  \/ key.type \in {"undefined", "null"}
  \/ key \in {Key("number", "0"), NaN, Key("string", ""), Key("boolean", "false")}
  \/ key.type = "array"
  \/ key.type = "object"
  \/ key.type = "function"

\* the four checks at the head of the WithValue constructor
InvalidKey(key) ==
  \/ key.type = "undefined" \/ key.type = "null"
  \/ key.type = "array"
  \/ key.type = "object"
  \/ key.type = "function"

\* new WithValue(parent, key, val)
NewWithValue(parent, key, val) ==
  IF InvalidKey(key)
  THEN UNCHANGED vars
  ELSE /\ ctxs' = Append(ctxs, [kind |-> "WithValue", parent |-> parent,
                                 key |-> key, val |-> val])
       /\ UNCHANGED <<sigError, aborted, listeners, timers, promises, now, firedBy,
                      log, hist>>

\* a constructor that does not observe the parent's signal
WithCancelCtor_NoPropagation(H, n, parent) == H

\* a constructor that wires the signals the wrong way round: the child's firing
\* cancels the parent
WithCancelCtor_Upward(H, n, parent) ==
  LET parentSignal == done(parent) IN
  IF parentSignal # Background
  THEN LET H1 == onCanceled(H, n, handler(parentSignal, n))
       IN onCanceled(H1, parentSignal, removeHandler(parentSignal, n))
  ELSE H

\* a constructor that watches its parent only when the parent is itself a
\* WithCancel or WithTimeout node
WithCancelCtor_DirectParentOnly(H, n, parent) ==
  IF parent # Background /\ ctxs[parent].kind # "WithValue"
  THEN LET H1 == onCanceled(H, parent, handler(n, parent))
       IN onCanceled(H1, n, removeHandler(n, parent))
  ELSE H

\* the body of the WithCancel constructor for the new node n
WithCancelCtor(H, n, parent) ==
  LET parentSignal == done(parent) IN
  IF parentSignal # Background
  THEN LET H1 == onCanceled(H, parentSignal, handler(n, parentSignal))
       IN onCanceled(H1, n, removeHandler(n, parentSignal))
  ELSE H

\* a constructor that never clears its timer
WithTimeoutCtor_NoClear(H, n, parent, ms) ==
  LET H1 == WithCancelCtor(H, n, parent)
  IN [H1 EXCEPT !.tm[n] = [state |-> "armed", deadline |-> now + ms]]

\* a constructor that registers the clearing of the timer before it arms the timer
WithTimeoutCtor_ArmsLast(H, n, parent, ms) ==
  LET H1 == WithCancelCtor(H, n, parent)
      H2 == onCanceled(H1, n, clearTimer(n))
  IN [H2 EXCEPT !.tm[n] = [state |-> "armed", deadline |-> now + ms]]

\* the body of the WithTimeout constructor for the new node n
WithTimeoutCtor(H, n, parent, ms) ==
  LET H1 == WithCancelCtor(H, n, parent)
      H2 == [H1 EXCEPT !.tm[n] = [state |-> "armed", deadline |-> now + ms]]
  IN onCanceled(H2, n, clearTimer(n))

\* new WithCancel(parent)
NewWithCancel(parent) ==
  LET n == Len(ctxs) + 1 IN
  /\ ctxs' = Append(ctxs, [kind |-> "WithCancel", parent |-> parent,
                            key |-> NoKey, val |-> null])
  /\ Store(WithCancelCtor(Heap, n, parent), 0, "parent")
  /\ UNCHANGED now

\* new WithTimeout(parent, ms), in a run that follows the clock up to maxTime
NewWithTimeoutBy(parent, ms, maxTime) ==
  LET n == Len(ctxs) + 1 IN
  /\ now + ms <= maxTime
  /\ ctxs' = Append(ctxs, [kind |-> "WithTimeout", parent |-> parent,
                            key |-> NoKey, val |-> null])
  /\ Store(WithTimeoutCtor(Heap, n, parent, ms), 0, "parent")
  /\ UNCHANGED now

\* new WithTimeout(parent, ms)
NewWithTimeout(parent, ms) == NewWithTimeoutBy(parent, ms, MaxTime)

\* ---- operations ----
\* cancel() that hands on what the parent reports instead of a new Canceled()
Cancel_ParentError(n) ==
  /\ IsCancelable(n)
  /\ Store(SignalCancel(Heap, n, error(parentOf(n))), n, "cancel")
  /\ UNCHANGED <<ctxs, now>>

\* WithCancel.cancel()
Cancel(n) ==
  /\ IsCancelable(n)
  /\ Store(SignalCancel(Heap, n, Canceled), n, "cancel")
  /\ UNCHANGED <<ctxs, now>>

\* timers run in the order of their deadlines, creation order breaking ties
Due(n) ==
  /\ timers[n].state = "armed"
  /\ timers[n].deadline <= now
  /\ \A m \in Node : timers[m].state = "armed" =>
        \/ timers[m].deadline > timers[n].deadline
        \/ (timers[m].deadline = timers[n].deadline /\ m >= n)

\* the setTimeout callback of WithTimeout: this._signal.cancel(new DeadlineExceeded())
TimerExpire(n) ==
  /\ Due(n)
  /\ Store(SignalCancel([Heap EXCEPT !.tm[n].state = "expired"], n, DeadlineExceeded),
           n, "timer")
  /\ UNCHANGED <<ctxs, now>>

\* the clock advances, up to maxTime
TickUntil(maxTime) ==
  /\ now < maxTime
  /\ now' = now + 1
  /\ UNCHANGED <<ctxs, sigError, aborted, listeners, timers, promises, firedBy, log,
                 hist>>

\* the clock advances
Tick == TickUntil(MaxTime)

\* the record of a new promise; late is history: whether the signal of the
\* context had fired when the promise was built
NewPromise(ctx) ==
  [ctx |-> ctx, state |-> "pending", value |-> null, settles |-> 0, by |-> null,
   ctxRejects |-> 0, late |-> done(ctx) # Background /\ aborted[done(ctx)]]

\* a constructor that registers the observer before it runs the executor
NewContextPromise_ObserverFirst(ctx, sync) ==
  LET p == Len(promises) + 1
      H0 == [Heap EXCEPT !.pr = Append(@, NewPromise(ctx))]
      H1 == IF done(ctx) # Background
            THEN onCanceled(H0, done(ctx), rejector(p))
            ELSE H0
      H2 == CASE sync = "resolve" -> nativeResolve(H1, p, "value")
               [] sync = "reject" -> nativeReject(H1, p, "failure", "executor")
               [] OTHER -> H1
  IN /\ Len(promises) < MaxPromises
     /\ Store(H2, 0, "parent")
     /\ UNCHANGED <<ctxs, now>>

\* new ContextPromise(ctx, executor); sync is what the executor does before it returns
NewContextPromise(ctx, sync) ==
  LET p == Len(promises) + 1
      H0 == [Heap EXCEPT !.pr = Append(@, NewPromise(ctx))]
      H1 == CASE sync = "resolve" -> nativeResolve(H0, p, "value")
               [] sync = "reject" -> nativeReject(H0, p, "failure", "executor")
               [] OTHER -> H0
      H2 == IF done(ctx) # Background
            THEN onCanceled(H1, done(ctx), rejector(p))
            ELSE H1
  IN /\ Len(promises) < MaxPromises
     /\ Store(H2, 0, "parent")
     /\ UNCHANGED <<ctxs, now>>

\* the executor (or a caller of resolve()) resolves the promise later
Resolve(p) ==
  /\ p \in 1..Len(promises)
  /\ Store(PromiseResolve(Heap, p, "value"), 0, "parent")
  /\ UNCHANGED <<ctxs, now>>

\* the executor (or a caller of reject()) rejects the promise later
Reject(p) ==
  /\ p \in 1..Len(promises)
  /\ Store(PromiseReject(Heap, p, "failure", "executor"), 0, "parent")
  /\ UNCHANGED <<ctxs, now>>

\* the callbacks of callers that wait on signal s, in the order of the list
Waiting(s) ==
  SelectSeq(listeners[s], LAMBDA l : l.fn.type \in {"observer", "canceller"})

\* the callbacks of callers handed over so far: those run and those waiting
Registered ==
  {log[i].obs : i \in 1..Len(log)}
    \cup UNION {{Waiting(s)[i].fn.node : i \in 1..Len(Waiting(s))} : s \in Node}

\* ctx.done().onCanceled(fn) with a new callback fn of the caller
Observe(s) ==
  /\ IsCancelable(s)
  /\ Registered # ObserverId
  /\ LET id == CHOOSE i \in ObserverId \ Registered :
                  \A j \in ObserverId \ Registered : i <= j
     IN Store(onCanceled(Heap, s, observer(id, s, aborted[s])), 0, "parent")
  /\ UNCHANGED <<ctxs, now>>

\* ctx.done().onCanceled(fn) with a new callback fn of the caller that calls
\* target.cancel(), target being the node of the signal or a node above it
ObserveCancelling(s, target) ==
  /\ IsCancelable(s) /\ IsCancelable(target) /\ InSubtree(target, s)
  /\ Registered # ObserverId
  /\ LET id == CHOOSE i \in ObserverId \ Registered :
                  \A j \in ObserverId \ Registered : i <= j
     IN Store(onCanceled(Heap, s, canceller(id, s, aborted[s], target)),
              target, "cancel")
  /\ UNCHANGED <<ctxs, now>>

Parents == {Background} \cup Created

\* ---- the same operations in a run that keeps the history of the calls ----
\* hist.called: the nodes cancel() has been called on; hist.late: the nodes built
\* over a parent whose signal had fired
Late(parent) ==
  IF done(parent) # Background /\ aborted[done(parent)]
  THEN [hist EXCEPT !.late = @ \cup {Len(ctxs) + 1}]
  ELSE hist

\* (variant) new WithCancel(parent) that fires the new node with Canceled when
\* it is built
NewWithCancelNoted_BornCanceled(parent) ==
  LET n == Len(ctxs) + 1 IN
  /\ ctxs' = Append(ctxs, [kind |-> "WithCancel", parent |-> parent,
                            key |-> NoKey, val |-> null])
  /\ StoreHeap(SignalCancel(WithCancelCtor(Heap, n, parent), n, Canceled), 0, "parent")
  /\ hist' = Late(parent)
  /\ UNCHANGED now

\* new WithCancel(parent)
NewWithCancelNoted(parent) ==
  LET n == Len(ctxs) + 1 IN
  /\ ctxs' = Append(ctxs, [kind |-> "WithCancel", parent |-> parent,
                            key |-> NoKey, val |-> null])
  /\ StoreHeap(WithCancelCtor(Heap, n, parent), 0, "parent")
  /\ hist' = Late(parent)
  /\ UNCHANGED now

\* new WithTimeout(parent, ms)
NewWithTimeoutNoted(parent, ms, maxTime) ==
  LET n == Len(ctxs) + 1 IN
  /\ now + ms <= maxTime
  /\ ctxs' = Append(ctxs, [kind |-> "WithTimeout", parent |-> parent,
                            key |-> NoKey, val |-> null])
  /\ StoreHeap(WithTimeoutCtor(Heap, n, parent, ms), 0, "parent")
  /\ hist' = Late(parent)
  /\ UNCHANGED now

\* WithCancel.cancel()
CancelNoted(n) ==
  /\ IsCancelable(n)
  /\ StoreHeap(SignalCancel(Heap, n, Canceled), n, "cancel")
  /\ hist' = [hist EXCEPT !.called = @ \cup {n}]
  /\ UNCHANGED <<ctxs, now>>

\* keys and values the callers of this specification pass to WithValue
CallerKeys == {Key("string", "key"), Key("null", "")}
CallerVals == {"v1"}

\* the context tree: constructors (up to maxNodes nodes), cancel(), timers
TreeNext(maxNodes) ==
  \/ /\ Len(ctxs) < maxNodes
     /\ \/ \E parent \in Parents, key \in CallerKeys, val \in CallerVals :
             NewWithValue(parent, key, val)
        \/ \E parent \in Parents : NewWithCancel(parent)
        \/ \E parent \in Parents, ms \in Durations : NewWithTimeout(parent, ms)
  \/ \E n \in Node : Cancel(n)
  \/ \E n \in Node : TimerExpire(n)
  \/ Tick

Next == TreeNext(MaxNodes)

Spec == Init /\ [][Next]_vars

\* the event loop keeps turning: time passes and the timer that is due runs
EventLoop == Tick \/ \E n \in Node : TimerExpire(n)

LiveNext == TreeNext(MaxLiveNodes)

LiveSpec == Init /\ [][LiveNext]_vars /\ WF_vars(EventLoop)

\* what an executor does before it returns: nothing, resolve(v) or reject(e)
Executors == {"none", "resolve", "reject"}

\* a small context tree with promises bound to its nodes
PromiseNext ==
  \/ TreeNext(MaxPromiseNodes)
  \/ \E ctx \in Parents, sync \in Executors :
        NewContextPromise(ctx, sync)
  \/ \E p \in PromiseId : Resolve(p)
  \/ \E p \in PromiseId : Reject(p)

PromiseSpec == Init /\ [][PromiseNext]_vars

\* a chain of cancelable contexts, each the child of the one before it, with
\* callbacks of callers on their signals
ObserverNext ==
  \/ /\ Len(ctxs) < MaxObserverNodes
     /\ \/ NewWithCancel(Len(ctxs))
        \/ \E ms \in Durations : NewWithTimeout(Len(ctxs), ms)
  \/ \E n \in Node : Cancel(n)
  \/ \E n \in Node : TimerExpire(n)
  \/ Tick
  \/ \E s \in Node : Observe(s)

ObserverSpec == Init /\ [][ObserverNext]_vars

\* the same chain, with callbacks that call cancel() themselves
ReentrantNext ==
  \/ ObserverNext
  \/ \E s \in Node, target \in Node : ObserveCancelling(s, target)

ReentrantSpec == Init /\ [][ReentrantNext]_vars

\* a small tree of cancelable contexts followed over a longer time, so that the
\* deadlines of two WithTimeout nodes can differ
DeadlineNext ==
  \/ /\ Len(ctxs) < MaxDeadlineNodes
     /\ \/ \E parent \in Parents : NewWithCancel(parent)
        \/ \E parent \in Parents, ms \in Durations :
             NewWithTimeoutBy(parent, ms, MaxDeadline)
  \/ \E n \in Node : Cancel(n)
  \/ \E n \in Node : TimerExpire(n)
  \/ TickUntil(MaxDeadline)

DeadlineSpec == Init /\ [][DeadlineNext]_vars

\* a tree of WithValue, WithCancel and WithTimeout nodes, with the history of
\* the calls
HistoryNext ==
  \/ /\ Len(ctxs) < MaxValueNodes
     /\ \/ \E parent \in Parents, key \in CallerKeys, val \in CallerVals :
             NewWithValue(parent, key, val)
        \/ \E parent \in Parents : NewWithCancelNoted(parent)
        \/ \E parent \in Parents, ms \in Durations :
             NewWithTimeoutNoted(parent, ms, MaxTime)
  \/ \E n \in Node : CancelNoted(n)
  \/ \E n \in Node : TimerExpire(n)
  \/ TickUntil(MaxTime)

HistorySpec == Init /\ [][HistoryNext]_vars

\* keys callers bind: the number 0 and the number NaN
BoundKeys == {Key("number", "0"), NaN}
\* keys callers look up: the bound ones and the string "0", which is never bound
\* and which === tells apart from the number 0
LookupKeys == BoundKeys \cup {Key("string", "0")}
BoundVals == {"v1", "v2"}

\* a context tree whose WithValue nodes bind several keys to several values
ValueNext ==
  \/ /\ Len(ctxs) < MaxValueNodes
     /\ \/ \E parent \in Parents, key \in BoundKeys, val \in BoundVals :
             NewWithValue(parent, key, val)
        \/ \E parent \in Parents : NewWithCancel(parent)
        \/ \E parent \in Parents, ms \in Durations : NewWithTimeout(parent, ms)
  \/ \E n \in Node : Cancel(n)
  \/ \E n \in Node : TimerExpire(n)
  \/ Tick

ValueSpec == Init /\ [][ValueNext]_vars

\* keys of every kind a caller can hand to WithValue
PrimitiveKeys ==
  {Key("string", "key"), Key("number", "10.03"), Key("boolean", "true"),
   Key("number", "0"), Key("string", ""), Key("boolean", "false")}
StructuralKeys ==
  {Key("undefined", "undefined"), Key("null", "null"), Key("object", "{}"),
   Key("object", "new temporary()"), Key("array", "[]"), Key("function", "() => {}")}
TestKeys == PrimitiveKeys \cup StructuralKeys

\* WithValue constructed with keys of every kind, next to WithCancel nodes
KeyNext ==
  \/ /\ Len(ctxs) < MaxKeyNodes
     /\ \/ \E parent \in Parents, key \in TestKeys, val \in CallerVals :
             NewWithValue(parent, key, val)
        \/ \E parent \in Parents : NewWithCancel(parent)
  \/ \E n \in Node : Cancel(n)

KeySpec == Init /\ [][KeyNext]_vars

\* ---- claims ----
CancelableNodes == {n \in Created : IsCancelable(n)}

\* the cancelable nodes of the subtree rooted at n, n included
Scope(n) == {m \in CancelableNodes : InSubtree(n, m)}

\* C1: cancel() on a node whose subtree holds no fired node leaves the node and
\* every cancelable descendant fired with cause Canceled when cancel() returns.
C1_CancelFiresWholeChain ==
  [][\A n \in Node :
       (Cancel(n) /\ \A m \in Scope(n) : ~aborted[m])
       => \A m \in Scope(n) : aborted'[m] /\ sigError'[m] = Canceled]_vars

\* a chain Background -> 1 -> 2 -> 3 of cancelable nodes after cancel() on node 1
C1_Witness ==
  /\ Len(ctxs) = 3
  /\ \A n \in 1..3 : IsCancelable(n) /\ parentOf(n) = n - 1
  /\ firedBy = <<"cancel", "parent", "parent">>
  /\ \A n \in 1..3 : aborted[n] /\ error(n) = Canceled

\* C2: cancel() on a node whose signal has already fired leaves error() as it was.
C2_CancelAfterFireIsNoOp ==
  [][\A n \in Node : (Cancel(n) /\ aborted[n]) => sigError'[n] = sigError[n]]_vars

\* C3: a node that fired through its own cancel() or its own timer keeps its cause
\* when an ancestor fires afterwards.
C3_OwnCauseSurvivesAncestor ==
  [][\A c \in Node, a \in Node :
       ( /\ IsCancelable(c) /\ IsCancelable(a) /\ IsAncestor(a, c)
         /\ firedBy[c] \in {"cancel", "timer"}
         /\ ~aborted[a]
         /\ (Cancel(a) \/ TimerExpire(a)) )
       => sigError'[c] = sigError[c]]_vars

\* C4: a WithTimeout node that fired through its own cancel() reports Canceled in
\* every later state.
C4_CanceledTimeoutStaysCanceled ==
  \A n \in Created :
    (ctxs[n].kind = "WithTimeout" /\ firedBy[n] = "cancel") => error(n) = Canceled

\* C5: the timer callback of a WithTimeout node fires the node and every cancelable
\* descendant not yet fired with cause DeadlineExceeded, and an armed timer is
\* followed by the firing of its node.
C5_TimeoutFiresSubtree ==
  /\ [][\A n \in Node :
          TimerExpire(n)
          => /\ aborted'[n] /\ sigError'[n] = DeadlineExceeded
             /\ \A m \in Scope(n) :
                  ~aborted[m] => (aborted'[m] /\ sigError'[m] = DeadlineExceeded)]_vars
  /\ \A n \in Node : (timers[n].state = "armed") ~> aborted[n]

\* a timed-out node above a descendant that took over DeadlineExceeded
C5_Witness ==
  \E t \in CancelableNodes, c \in CancelableNodes :
    /\ ctxs[t].kind = "WithTimeout" /\ IsAncestor(t, c)
    /\ firedBy[t] = "timer" /\ error(t) = DeadlineExceeded
    /\ firedBy[c] = "parent" /\ aborted[c] /\ error(c) = DeadlineExceeded

\* C6: once a child has fired, the signal of its parent holds no observer of
\* that child.
C6_ObserverRemovedOnFire ==
  \A c \in CancelableNodes :
    LET ps == done(parentOf(c)) IN
    (ps # Background /\ aborted[c])
    => ~ \E i \in 1..Len(listeners[ps]) : listeners[ps][i].fn = handler(c, ps)

\* C7: a WithTimeout node whose signal has fired has no armed timer.
C7_FiredMeansDisarmed ==
  \A n \in Node : aborted[n] => timers[n].state # "armed"

\* a WithTimeout node fired by its parent, and one fired by cancel(), timers cleared
C7_Witness ==
  /\ \E n \in CancelableNodes :
       aborted[n] /\ firedBy[n] = "parent" /\ timers[n].state = "cleared"
  /\ \E n \in CancelableNodes :
       aborted[n] /\ firedBy[n] = "cancel" /\ timers[n].state = "cleared"

\* C8: cancel() or the timer of a node changes neither the fired flag nor the
\* cause of any node outside that node's subtree.
C8_FiringStaysInSubtree ==
  [][\A n \in Node :
       (Cancel(n) \/ TimerExpire(n))
       => \A m \in CancelableNodes \ Scope(n) :
            aborted'[m] = aborted[m] /\ sigError'[m] = sigError[m]]_vars

\* a fired child under an unfired parent that has another, unfired child
C8_Witness ==
  \E c \in CancelableNodes, d \in CancelableNodes :
    /\ c # d /\ parentOf(c) = parentOf(d) /\ IsCancelable(parentOf(c))
    /\ firedBy[c] \in {"cancel", "timer"}
    /\ ~aborted[parentOf(c)] /\ ~aborted[d]

\* C9: a promise whose context has fired is never left pending; the context
\* rejects it at most once, and at the moment it does the reason is the cause
\* the context reports: Canceled after cancel(), DeadlineExceeded after the timer.
C9_RejectedWithCause ==
  /\ [](\A p \in 1..Len(promises) :
          LET s == done(promises[p].ctx) IN
          /\ (s # Background /\ aborted[s])
               => (promises[p].state # "pending" /\ promises[p].ctxRejects = 1)
          /\ promises[p].by = "context"
               => /\ promises[p].state = "rejected"
                  /\ promises[p].value \in {Canceled, DeadlineExceeded}
                  /\ promises[p].settles = 1
          /\ promises[p].ctxRejects <= 1)
  /\ [][\A p \in 1..Len(promises') :
          ( /\ promises'[p].by = "context"
            /\ (p > Len(promises) \/ promises[p].by # "context") )
          => LET s == done(promises'[p].ctx) IN
             /\ promises'[p].value = sigError'[s]
             /\ (~aborted[s] /\ firedBy'[s] = "cancel")
                  => promises'[p].value = Canceled
             /\ (~aborted[s] /\ firedBy'[s] = "timer")
                  => promises'[p].value = DeadlineExceeded]_vars

\* a pending promise rejected by the timeout of its context
C9_Witness ==
  \E p \in 1..Len(promises) :
    /\ promises[p].by = "context" /\ promises[p].state = "rejected"
    /\ promises[p].value = DeadlineExceeded
    /\ firedBy[done(promises[p].ctx)] = "timer"

\* C10: a settled promise keeps its state and value whatever happens later, and
\* a promise settles at most once.
C10_FirstSettlementWins ==
  /\ [][\A p \in 1..Len(promises) :
          promises[p].state # "pending"
          => /\ promises'[p].state = promises[p].state
             /\ promises'[p].value = promises[p].value
             /\ promises'[p].by = promises[p].by
             /\ promises'[p].settles = promises[p].settles]_vars
  /\ [](\A p \in 1..Len(promises) :
          /\ promises[p].settles <= 1
          /\ (promises[p].state = "pending") <=> (promises[p].settles = 0))

\* a promise resolved by its executor whose context then tried to reject it
C10_Witness ==
  \E p \in 1..Len(promises) :
    /\ promises[p].state = "resolved" /\ promises[p].ctxRejects = 1
    /\ aborted[done(promises[p].ctx)]


\* C11: a promise bound to a context that exposes no signal, or whose signal has
\* not fired, is never rejected by the context; only resolve() and reject()
\* called for the executor change it.
C11_NoSignalNoContextRejection ==
  /\ [](\A p \in 1..Len(promises) :
          LET s == done(promises[p].ctx) IN
          (s = Background \/ ~aborted[s])
          => (promises[p].ctxRejects = 0 /\ promises[p].by # "context"))
  /\ [][\A p \in 1..Len(promises) :
          LET s == done(promises[p].ctx) IN
          ((s = Background \/ ~aborted'[s]) /\ promises'[p] # promises[p])
          => (Resolve(p) \/ Reject(p))]_vars

\* a promise on a WithValue layer over Background settled by its executor
C11_Witness ==
  \E p \in 1..Len(promises) :
    /\ promises[p].ctx # Background /\ done(promises[p].ctx) = Background
    /\ promises[p].state # "pending" /\ promises[p].settles = 1
    /\ promises[p].by # "context"


\* C12: a callback handed to onCanceled of a signal that has fired runs within
\* that call, once, with the cause the signal reports; it is not queued, and no
\* callback ever runs twice.
C12_RegisterAfterFireRunsAtOnce ==
  /\ [][\A s \in Node :
          (aborted[s] /\ Observe(s))
          => /\ Len(log') = Len(log) + 1
             /\ SubSeq(log', 1, Len(log)) = log
             /\ log'[Len(log')].sig = s
             /\ log'[Len(log')].obs \notin Registered
             /\ log'[Len(log')].arg = sigError[s]
             /\ log'[Len(log')].arg \in {Canceled, DeadlineExceeded}
             /\ listeners' = listeners]_vars
  /\ [](\A i \in 1..Len(log), j \in 1..Len(log) :
          log[i].obs = log[j].obs => i = j)

\* a callback handed over after the timer of its signal had fired the signal
C12_Witness ==
  \E i \in 1..Len(log) :
    /\ log[i].late /\ log[i].arg = DeadlineExceeded
    /\ firedBy[log[i].sig] = "timer"


\* C13: cancel() on a node that cancel() has fired changes nothing: error() is
\* still Canceled, the signal is still fired and no callback runs again; and a
\* node first fired by cancel() reports Canceled after every later cancel().
C13_SecondCancelChangesNothing ==
  [][\A n \in Node :
       /\ (aborted[n] /\ sigError[n] = Canceled /\ Cancel(n)) => UNCHANGED vars
       /\ (firedBy[n] = "cancel" /\ Cancel(n))
            => /\ sigError'[n] = Canceled /\ aborted'[n]
               /\ log' = log /\ listeners' = listeners]_vars

\* a node fired by cancel() whose waiting callback has run once with Canceled
C13_Witness ==
  \E n \in CancelableNodes, i \in 1..Len(log) :
    /\ firedBy[n] = "cancel" /\ aborted[n] /\ error(n) = Canceled
    /\ log[i].sig = n /\ ~log[i].late /\ log[i].arg = Canceled
    /\ listeners[n] = <<>>


\* a WithTimeout node c whose parent p is a WithTimeout node with a sooner deadline
SoonerParent(c, p) ==
  /\ c \in Created /\ p \in Created /\ parentOf(c) = p
  /\ ctxs[c].kind = "WithTimeout" /\ ctxs[p].kind = "WithTimeout"
  /\ timers[p].deadline < timers[c].deadline

\* C14: a WithTimeout child under a WithTimeout parent with a sooner deadline, as
\* long as cancel() is not called on the child, has the fired flag and the cause
\* of its parent: it fires with the parent, and its own timer never runs.
C14_EarlierDeadlineWins ==
  [][\A c \in Node, p \in Node :
       ( /\ SoonerParent(c, p)
         /\ aborted[c] = aborted[p] /\ sigError[c] = sigError[p]
         /\ ~Cancel(c) )
       => /\ aborted'[c] = aborted'[p] /\ sigError'[c] = sigError'[p]
          /\ ~TimerExpire(c)]_vars


\* the WithValue nodes on the path from n to the root, n included, whose key
\* equals key
Bindings(n, key) ==
  {m \in Created : /\ InSubtree(m, n) /\ ctxs[m].kind = "WithValue"
                   /\ StrictEquals(ctxs[m].key, key)}

\* C15: value(k) at a node is the value of the binding of k nearest to the node
\* on its path to the root, WithCancel and WithTimeout nodes on the path leaving
\* it as it is, and null when the path holds no binding of k.
C15_NearestBindingWins ==
  \A n \in Parents, k \in LookupKeys :
    IF Bindings(n, k) = {}
    THEN value(n, k) = null
    ELSE \E m \in Bindings(n, k) :
           /\ \A o \in Bindings(n, k) : InSubtree(o, m)
           /\ value(n, k) = ctxs[m].val

\* Background -> WithValue(K, v1) -> WithValue(K, v2) -> a cancelable node: v2 at
\* the tail and below it, v1 in the middle, nothing at the root, and nothing
\* for the same text as a key of another type
C15_Witness ==
  LET K == Key("number", "0") IN
  /\ Len(ctxs) = 3
  /\ \A n \in 1..3 : parentOf(n) = n - 1
  /\ ctxs[1].kind = "WithValue" /\ ctxs[1].key = K /\ ctxs[1].val = "v1"
  /\ ctxs[2].kind = "WithValue" /\ ctxs[2].key = K /\ ctxs[2].val = "v2"
  /\ IsCancelable(3)
  /\ value(3, K) = "v2" /\ value(2, K) = "v2" /\ value(1, K) = "v1"
  /\ value(Background, K) = null
  /\ value(3, Key("string", "0")) = null


\* C16: cancel() and the timer of a node leave value(k) as it was at every node
\* and for every key, fired or not.
C16_FiringKeepsValues ==
  [][\/ \A n \in Parents, k \in CallerKeys \cup LookupKeys :
          value(n, k)' = value(n, k)
     \/ ~ \E m \in Node : Cancel(m) \/ TimerExpire(m)]_vars

\* a fired cancelable node that still sees the binding of an ancestor, with a
\* WithValue node below it that sees its own
C16_Witness ==
  \E n \in CancelableNodes, v \in Created, k \in CallerKeys :
    /\ aborted[n] /\ firedBy[n] \in {"cancel", "timer"}
    /\ value(n, k) = "v1"
    /\ ctxs[v].kind = "WithValue" /\ IsAncestor(n, v) /\ value(v, k) = "v1"


\* a is the cancelable node nearest to n among the proper ancestors of n
NearestCancelable(a, n) ==
  /\ IsCancelable(a) /\ IsAncestor(a, n)
  /\ \A m \in Created : (IsAncestor(a, m) /\ IsAncestor(m, n)) => ~IsCancelable(m)

\* C17: a WithValue node has the error() and the done signal of the nearest
\* cancelable node above it, and none when there is no such node; a cancelable
\* node that sits below another one with only WithValue nodes between them fires
\* when that one fires, with the same cause.
C17_WithValueAddsNoScope ==
  /\ [](\A n \in Created :
          ctxs[n].kind = "WithValue"
          => /\ error(n) = error(parentOf(n)) /\ done(n) = done(parentOf(n))
             /\ \A a \in Created :
                  NearestCancelable(a, n) => (done(n) = a /\ error(n) = sigError[a])
             /\ (~ \E a \in Created : IsCancelable(a) /\ IsAncestor(a, n))
                  => (done(n) = Background /\ error(n) = null))
  /\ [][\A a \in Node, c \in Node :
          ( /\ IsCancelable(c) /\ NearestCancelable(a, c) /\ parentOf(c) # a
            /\ ~aborted[a] /\ aborted'[a] /\ ~aborted[c] )
          => (aborted'[c] /\ sigError'[c] = sigError'[a])]_vars

\* cancelable 1 -> WithValue 2 -> cancelable 3 after node 1 has fired: all three
\* report the cause of node 1
C17_Witness ==
  /\ Len(ctxs) = 3
  /\ \A n \in 1..3 : parentOf(n) = n - 1
  /\ IsCancelable(1) /\ ctxs[2].kind = "WithValue" /\ IsCancelable(3)
  /\ firedBy[1] \in {"cancel", "timer"} /\ firedBy[3] = "parent"
  /\ done(2) = 1 /\ error(2) = error(1) /\ error(3) = error(1)
  /\ error(1) \in {Canceled, DeadlineExceeded}


\* C18: the WithValue constructor, handed a key that is undefined, null, an
\* object, an instance of a class, an array or a function, fails and changes
\* nothing; handed a string, a number or a boolean, 0, "" and false included, it
\* creates the node; so no node ever holds a key it should have refused.
C18_KeyCheckedAtConstruction ==
  /\ \A parent \in Parents, key \in TestKeys, val \in CallerVals :
       IF key.type \in {"string", "number", "boolean"}
       THEN /\ ~InvalidKey(key)
            /\ ENABLED ( /\ NewWithValue(parent, key, val)
                         /\ ctxs' = Append(ctxs, [kind |-> "WithValue",
                                parent |-> parent, key |-> key, val |-> val]) )
       ELSE /\ InvalidKey(key)
            /\ ~ ENABLED (NewWithValue(parent, key, val) /\ vars' # vars)
  /\ \A n \in Created :
       ctxs[n].kind = "WithValue" => ctxs[n].key.type \in {"string", "number", "boolean"}

\* nodes built with the keys 0 and false, each found again by value()
C18_Witness ==
  \E n \in Created, m \in Created :
    /\ ctxs[n].kind = "WithValue" /\ ctxs[n].key = Key("number", "0")
    /\ ctxs[m].kind = "WithValue" /\ ctxs[m].key = Key("boolean", "false")
    /\ value(n, Key("number", "0")) = ctxs[n].val
    /\ value(m, Key("boolean", "false")) = ctxs[m].val


\* C19: Background reports no error, no signal and no value for any key, in
\* every state of the tree below it; and it never fires a descendant: a
\* cancelable node with no cancelable node above it fires only through its own
\* cancel() or timer.
C19_BackgroundNeverCanceled ==
  /\ error(Background) = null
  /\ done(Background) = Background
  /\ \A k \in LookupKeys : value(Background, k) = null
  /\ \A n \in CancelableNodes :
       (~ \E a \in CancelableNodes : IsAncestor(a, n))
       => /\ firedBy[n] # "parent"
          /\ error(n) # null => firedBy[n] \in {"cancel", "timer"}

\* below Background: a binding, a node fired by cancel() and a node timed out
C19_Witness ==
  \E v \in Created, c \in Created, t \in Created :
    /\ parentOf(v) = Background /\ ctxs[v].kind = "WithValue"
    /\ value(v, ctxs[v].key) = ctxs[v].val
    /\ parentOf(c) = Background /\ firedBy[c] = "cancel" /\ error(c) = Canceled
    /\ parentOf(t) = Background /\ firedBy[t] = "timer"
    /\ error(t) = DeadlineExceeded


\* the callbacks of callers that ran on signal s after position from of the log
RanSince(s, from) ==
  SelectSeq(SubSeq(log', from + 1, Len(log')), LAMBDA e : e.sig = s)

\* C20: in the step in which a signal fires, the callbacks of callers waiting on
\* it run once each, in the order in which they were handed over, and none of
\* them waits any longer; no callback ever runs a second time.
C20_ObserversRunOnceInOrder ==
  /\ [][\A s \in Node :
          (~aborted[s] /\ aborted'[s])
          => /\ SubSeq(log', 1, Len(log)) = log
             /\ Len(RanSince(s, Len(log))) = Len(Waiting(s))
             /\ \A i \in 1..Len(Waiting(s)) :
                  /\ RanSince(s, Len(log))[i].obs = Waiting(s)[i].fn.node
                  /\ ~RanSince(s, Len(log))[i].late
                  /\ \A j \in 1..Len(Waiting(s)) :
                       i < j => Waiting(s)[i].fn.node < Waiting(s)[j].fn.node
             /\ listeners'[s] = <<>>]_vars
  /\ [][\A i \in 1..Len(log) : i <= Len(log') /\ log'[i] = log[i]]_vars
  /\ [](\A i \in 1..Len(log), j \in 1..Len(log) :
          (i # j) => log[i].obs # log[j].obs)

\* two callbacks handed to one signal before it fired, run in that order
C20_Witness ==
  \E i \in 1..Len(log), j \in 1..Len(log) :
    /\ i < j /\ log[i].sig = log[j].sig
    /\ ~log[i].late /\ ~log[j].late
    /\ log[i].obs < log[j].obs
    /\ aborted[log[i].sig] /\ log[i].arg = log[j].arg


\* the part of the log that the step under way has added
NewLog == SubSeq(log', Len(log) + 1, Len(log'))

\* c is about to fire with p: both unfired, the handler of c waits on p, p fires
FiresWith(c, p) ==
  /\ IsCancelable(c) /\ IsCancelable(p) /\ done(parentOf(c)) = p
  /\ ~aborted[p] /\ aborted'[p]
  /\ ~aborted[c]
  /\ \E i \in 1..Len(listeners[p]) : listeners[p][i].fn = handler(c, p)

\* the place of the handler of c in the list of p
HandlerAt(c, p) ==
  CHOOSE i \in 1..Len(listeners[p]) : listeners[p][i].fn = handler(c, p)

\* the callbacks of callers that wait on p before (TRUE) or after (FALSE) the
\* handler of c
WaitingAround(c, p, before) ==
  {listeners[p][i].fn.node :
     i \in {j \in 1..Len(listeners[p]) :
              /\ listeners[p][j].fn.type = "observer"
              /\ (j < HandlerAt(c, p)) = before}}

\* C21 as stated: when a child fires with its parent, every callback waiting on
\* the parent has run before the first callback of the child runs.
C21_ParentCompletesBeforeChild ==
  [][\A c \in Node, p \in Node :
       FiresWith(c, p)
       => \A x \in 1..Len(NewLog), y \in 1..Len(NewLog) :
            (NewLog[x].sig = p /\ NewLog[y].sig = c) => x < y]_vars

\* C21 amended: when a child fires with its parent, it fires with the cause the
\* parent has recorded, after the callbacks handed to the parent before the
\* child was built and before those handed to the parent afterwards.
C21_ChildFiresInListOrder ==
  [][\A c \in Node, p \in Node :
       FiresWith(c, p)
       => /\ aborted'[c] /\ sigError'[c] = sigError'[p]
          /\ sigError'[c] \in {Canceled, DeadlineExceeded}
          /\ \A x \in 1..Len(NewLog), y \in 1..Len(NewLog) :
               (NewLog[x].sig = p /\ NewLog[y].sig = c)
               => /\ NewLog[x].obs \in WaitingAround(c, p, TRUE) => x < y
                  /\ NewLog[x].obs \in WaitingAround(c, p, FALSE) => y < x
                  /\ NewLog[x].arg = NewLog[y].arg]_vars

\* a callback of the child that ran before a callback of its parent, in the
\* firing of the parent
C21_Witness ==
  \E i \in 1..Len(log), j \in 1..Len(log) :
    /\ i < j
    /\ IsCancelable(log[i].sig) /\ parentOf(log[i].sig) = log[j].sig
    /\ firedBy[log[i].sig] = "parent" /\ firedBy[log[j].sig] \in {"cancel", "timer"}
    /\ ~log[i].late /\ ~log[j].late


\* C22: a signal has an error exactly if it has fired, between operations and
\* at every moment a callback of a caller runs; so the error a child takes over
\* from its parent in the propagation handler is never null.
C22_ErrorIffFired ==
  /\ \A n \in Node : (sigError[n] # null) <=> aborted[n]
  /\ \A n \in CancelableNodes : (error(n) # null) <=> aborted[done(n)]
  /\ \A i \in 1..Len(log) :
       log[i].seen /\ log[i].arg \in {Canceled, DeadlineExceeded}

\* a callback that ran inside the firing of a child fired by its parent
C22_Witness ==
  \E i \in 1..Len(log) :
    /\ firedBy[log[i].sig] = "parent" /\ ~log[i].late
    /\ log[i].seen /\ log[i].arg = error(parentOf(log[i].sig))
    /\ log[i].arg = DeadlineExceeded


\* n itself, if cancelable, and the cancelable nodes above n
SelfAndAbove(n) == {a \in CancelableNodes : InSubtree(a, n)}

\* C23: a node reports Canceled only if cancel() has been called on it or on a
\* node above it, DeadlineExceeded only if its timer or the timer of a node above
\* it has expired, and nothing, with no signal fired, if neither has happened.
C23_CauseHasAnOrigin ==
  \A n \in Created :
    /\ error(n) = Canceled => \E a \in SelfAndAbove(n) : a \in hist.called
    /\ error(n) = DeadlineExceeded
         => \E a \in SelfAndAbove(n) :
              ctxs[a].kind = "WithTimeout" /\ timers[a].state = "expired"
    /\ (\A a \in SelfAndAbove(n) :
          a \notin hist.called /\ timers[a].state # "expired")
         => (error(n) = null /\ (done(n) # Background => ~aborted[done(n)]))

\* a timed-out parent, its child cancelled before that by cancel(), and the
\* child's cause taken over from the right origins
C23_Witness ==
  \E p \in CancelableNodes, c \in CancelableNodes :
    /\ parentOf(c) = p
    /\ timers[p].state = "expired" /\ error(p) = DeadlineExceeded
    /\ p \notin hist.called /\ c \in hist.called
    /\ error(c) \in {Canceled, DeadlineExceeded}


\* C24: a signal that has fired has no observer on its list, in this state and
\* in every later one; a callback that has run is on no list any more, and a
\* callback handed over after the firing has run and was never put on the list.
C24_FiredSignalHasNoObservers ==
  /\ \A s \in Node : aborted[s] => listeners[s] = <<>>
  /\ \A i \in 1..Len(log), s \in Node : \A j \in 1..Len(listeners[s]) :
       ~ (/\ listeners[s][j].fn.type = "observer"
          /\ listeners[s][j].fn.node = log[i].obs)
  /\ \A i \in 1..Len(log) : log[i].late => aborted[log[i].sig]

\* one callback ran when the signal fired, a second one was handed over later
\* and ran at once; the list of the signal is empty
C24_Witness ==
  \E i, j \in 1..Len(log) :
    /\ i < j /\ log[i].sig = log[j].sig
    /\ ~log[i].late /\ log[j].late
    /\ listeners[log[i].sig] = <<>>


\* C25: a WithCancel or WithTimeout node built over a parent whose signal has
\* fired is fired when its constructor returns, with the cause the parent's
\* signal holds; the timer of such a WithTimeout node is cleared by then, and it
\* never runs.
C25_BuiltOverFiredParentIsFired ==
  [][/\ \A parent \in Parents :
          LET s == done(parent)
              n == Len(ctxs) + 1
          IN (/\ s # Background /\ aborted[s]
              /\ Len(ctxs') = n
              /\ ctxs'[n].kind \in {"WithCancel", "WithTimeout"}
              /\ ctxs'[n].parent = parent)
             => /\ aborted'[n]
                /\ sigError'[n] = sigError[s]
                /\ sigError'[n] \in {Canceled, DeadlineExceeded}
                /\ n \in hist'.late
                /\ ctxs'[n].kind = "WithTimeout" => timers'[n].state = "cleared"
     /\ \A n \in hist'.late : timers'[n].state \in {"none", "cleared"}]_vars

\* a WithTimeout node built under a node that cancel() had fired: fired, with
\* Canceled, its own timer cleared
C25_Witness ==
  \E n \in hist.late :
    /\ ctxs[n].kind = "WithTimeout" /\ timers[n].state = "cleared"
    /\ aborted[n] /\ sigError[n] = Canceled
    /\ done(parentOf(n)) \in hist.called /\ n \notin hist.called


\* C26: between operations, every WithCancel or WithTimeout node below a fired
\* cancelable node is fired too, whatever WithValue nodes lie between them and
\* whether it was built before or after the firing.
C26_FiredNodeHasFiredSubtree ==
  \A a \in CancelableNodes, d \in CancelableNodes :
    (aborted[a] /\ IsAncestor(a, d)) => aborted[d] /\ error(d) # null

\* a fired node with a WithValue node below it and, below that, a cancelable
\* node built after the firing
C26_Witness ==
  \E a \in CancelableNodes, v \in Created, d \in CancelableNodes :
    /\ ctxs[v].kind = "WithValue" /\ parentOf(v) = a /\ parentOf(d) = v
    /\ a \in hist.called /\ d \in hist.late /\ d \notin hist.called
    /\ aborted[a] /\ aborted[d]


\* C27: the callbacks waiting on a signal when it fires are all called with the
\* same cause, also when one of them calls cancel() on the node of the signal or
\* on a node above it.
C27_OneCauseForAllObservers ==
  \A i, j \in 1..Len(log) :
    (log[i].sig = log[j].sig /\ ~log[i].late /\ ~log[j].late)
    => log[i].arg = log[j].arg


\* C28: the constructor of a promise runs the executor first and hands its
\* observer to the signal afterwards; on a context whose signal has fired, a
\* promise that its executor settled before returning keeps that settlement, and
\* a promise left pending by its executor is rejected with the cause of the
\* context before the constructor returns.
C28_ExecutorRunsBeforeObserver ==
  /\ [][\A ctx \in Parents, sync \in Executors :
          LET s == done(ctx)
              p == Len(promises) + 1
          IN (/\ s # Background /\ aborted[s]
              /\ Len(promises') = p
              /\ NewContextPromise(ctx, sync))
             => /\ promises'[p].late
                /\ promises'[p].settles = 1
                /\ promises'[p].ctxRejects = 1
                /\ listeners' = listeners
                /\ sync = "resolve"
                     => /\ promises'[p].state = "resolved"
                        /\ promises'[p].value = "value"
                        /\ promises'[p].by # "context"
                /\ sync = "reject"
                     => /\ promises'[p].state = "rejected"
                        /\ promises'[p].value = "failure"
                        /\ promises'[p].by = "executor"
                /\ sync = "none"
                     => /\ promises'[p].state = "rejected"
                        /\ promises'[p].value = sigError[s]
                        /\ promises'[p].value \in {Canceled, DeadlineExceeded}
                        /\ promises'[p].by = "context"]_vars
  /\ [](\A p \in 1..Len(promises) :
          promises[p].late
          => /\ promises[p].state # "pending"
             /\ promises[p].state = "resolved" => promises[p].by # "context")

\* two promises built on a context that had fired: one resolved by its executor
\* and still resolved, one left pending and rejected by the context
C28_Witness ==
  \E p, q \in 1..Len(promises) :
    /\ promises[p].late /\ promises[p].state = "resolved"
    /\ promises[p].value = "value" /\ promises[p].ctxRejects = 1
    /\ promises[q].late /\ promises[q].state = "rejected"
    /\ promises[q].by = "context"


\* the places on the list of signal s that hold the observer of promise p
ObserverOf(p, s) ==
  {i \in 1..Len(listeners[s]) : listeners[s][i] = Wrapper(rejector(p))}

\* C29: building a promise on a context whose signal has not fired puts exactly
\* one observer on that signal; the observer stays there, whether or not the
\* promise settles meanwhile, until the signal fires; then it is called once,
\* and a promise that had settled is left as it was.
C29_OneObserverUntilFired ==
  /\ [](\A p \in 1..Len(promises) :
          LET s == done(promises[p].ctx) IN
          s # Background
          => /\ ~aborted[s] => (Cardinality(ObserverOf(p, s)) = 1
                                /\ promises[p].ctxRejects = 0)
             /\ aborted[s] => (ObserverOf(p, s) = {} /\ promises[p].ctxRejects = 1))
  /\ [][\A ctx \in Parents :
          LET s == done(ctx)
              p == Len(promises) + 1
          IN (/\ s # Background /\ ~aborted[s]
              /\ Len(promises') = p /\ promises'[p].ctx = ctx)
             => /\ listeners'[s] = Append(listeners[s], Wrapper(rejector(p)))
                /\ \A m \in Node \ {s} : listeners'[m] = listeners[m]]_vars
  /\ [][\A p \in 1..Len(promises) :
          LET s == done(promises[p].ctx) IN
          (/\ s # Background /\ ~aborted[s] /\ aborted'[s]
           /\ promises[p].state # "pending")
          => promises'[p] = [promises[p] EXCEPT !.ctxRejects = 1]]_vars

\* a promise built before its context fired and resolved by its executor, still
\* resolved after the signal fired and called its observer
C29_Witness ==
  \E p \in 1..Len(promises) :
    /\ ~promises[p].late /\ done(promises[p].ctx) # Background
    /\ aborted[done(promises[p].ctx)]
    /\ promises[p].state = "resolved" /\ promises[p].value = "value"
    /\ promises[p].ctxRejects = 1 /\ promises[p].settles = 1

====
